---- MODULE Spec2Model ----
(***************************************************************************)
(* The three.js samples 002-009 and the challenge scene: one App3 object,  *)
(* its key and resize handlers, its one-time init() and its self           *)
(* re-registering render() loop, driven by the browser's event loop.       *)
(*                                                                         *)
(* The library and the browser appear only through what the samples call:  *)
(* requestAnimationFrame (a count of registered callbacks),                *)
(* OrbitControls.update (a tick count), WebGLRenderer.setSize / render     *)
(* (the surface size and a snapshot of what was submitted),                *)
(* PerspectiveCamera.aspect / updateProjectionMatrix.                      *)
(*                                                                         *)
(* rotation.y is a JavaScript Number: an IEEE-754 double, modelled bit     *)
(* for bit (53-bit significand in two limbs, round to nearest even).       *)
(* Positions are only ever assigned, so a position coordinate is kept in   *)
(* thousandths (0.1 is 100); the random scatter of sample 009 draws        *)
(* multiples of 1/8, on which the double arithmetic of the source is exact.*)
(***************************************************************************)
EXTENDS Integers, Sequences, FiniteSets, TLC

\* ------------------------------------------------------------- bounds
\* Frame steps followed in one run of Spec (the first render() included).
MaxFrames == 8

\* In the end-to-end scenario of sample 009: frame steps followed that begin
\* with isDown true, and frame steps followed that begin with isDown false (the
\* first render() included).
MaxScenarioFrames == 100
MaxIdleFrames == 2

\* ------------------------------------------------- program constants
TORUS_COUNT == 10
TRANSFORM_SCALE == 5

\* The fixed-point unit of a position coordinate: 1.0 is One.
One == 1000

Samples == {"s002", "s003", "s004", "s005", "s008", "s009", "challenge"}

\* The samples whose constructor registers keydown / keyup handlers.
HasKeyHandlers(s) == s \in {"s004", "s005", "s008", "s009", "challenge"}

\* The samples whose constructor registers a resize handler.
HasResizeHandler(s) == s \in {"s008", "s009", "challenge"}

\* KeyboardEvent.key values the host delivers; " " is the space key.
Keys == {" ", "a"}

\* window.innerWidth x window.innerHeight; <<4, 3>> and <<8, 6>> share a ratio.
Sizes == {<<4, 3>>, <<8, 6>>, <<16, 9>>}

\* Seeds of Math.random: the stream of sample 009's draws depends on it.
Seeds == {"spread", "stride", "stuck"}

\* ------------------------------------------- JavaScript Number (double)
\* A non-negative double is [e, hi, lo]: value (hi * 2^27 + lo) * 2^(e - 52),
\* with 2^52 <= hi * 2^27 + lo < 2^53, or zero.
Limb == 2 ^ 27
HiTop == 2 ^ 26

Zero == [e |-> 0, hi |-> 0, lo |-> 0]

IsZero(x) == x.hi = 0 /\ x.lo = 0

\* Shift a significand right by d bits, keeping the guard bit g (the last bit
\* shifted out) and the sticky bit s (the OR of all earlier ones).
RECURSIVE ShiftRight(_, _)
ShiftRight(m, d) ==
  IF d = 0 \/ (m.hi = 0 /\ m.lo = 0 /\ m.g = 0)
    THEN m
    ELSE CHOOSE r \in
           { ShiftRight(half, d - 1) : half \in
             { [hi |-> m.hi \div 2,
                lo |-> (m.lo \div 2) + (m.hi % 2) * (Limb \div 2),
                g  |-> m.lo % 2,
                s  |-> IF m.g = 1 THEN 1 ELSE m.s] } } : TRUE

\* Round to nearest, ties to even.
RoundNearestEven(e, m) ==
  LET up  == m.g = 1 /\ (m.s = 1 \/ m.lo % 2 = 1)
      lo1 == IF up THEN m.lo + 1 ELSE m.lo
      hi1 == IF lo1 = Limb THEN m.hi + 1 ELSE m.hi
      lo2 == IF lo1 = Limb THEN 0 ELSE lo1
  IN  IF hi1 = HiTop THEN [e |-> e + 1, hi |-> HiTop \div 2, lo |-> 0]
                     ELSE [e |-> e, hi |-> hi1, lo |-> lo2]

\* The sum of two aligned significands, renormalised and rounded: a is the
\* operand of the larger exponent, bs the other one shifted to that exponent.
AddAligned(a, bs) ==
  CHOOSE r \in
    { IF sum.hi >= HiTop
        THEN CHOOSE q \in { RoundNearestEven(a.e + 1, halved) :
                              halved \in { ShiftRight(sum, 1) } } : TRUE
        ELSE RoundNearestEven(a.e, sum) :
      sum \in { [hi |-> a.hi + bs.hi + ((a.lo + bs.lo) \div Limb),
                 lo |-> (a.lo + bs.lo) % Limb,
                 g  |-> bs.g,
                 s  |-> bs.s] } } : TRUE

\* x + y in double precision, for x, y >= 0.
FAdd(x, y) ==
  IF IsZero(x) THEN y
  ELSE IF IsZero(y) THEN x
  ELSE CHOOSE r \in
         { AddAligned(a, bs) :
           a  \in { IF x.e >= y.e THEN x ELSE y },
           bs \in { IF x.e >= y.e
                       THEN ShiftRight([hi |-> y.hi, lo |-> y.lo,
                                        g |-> 0, s |-> 0], x.e - y.e)
                       ELSE ShiftRight([hi |-> x.hi, lo |-> x.lo,
                                        g |-> 0, s |-> 0], y.e - x.e) } } : TRUE

\* The literal 0.05 = 0x1.999999999999ap-5.
RotationStep == [e |-> -5, hi |-> 53687091, lo |-> 26843546]

\* The literal 5.0 = 0x1.4p+2.
Five == [e |-> 2, hi |-> 41943040, lo |-> 0]

\* ------------------------------------------------ what init() constructs
Geometry(ref, kind, dims) == [ref |-> ref, kind |-> kind, dims |-> dims]
Material(ref, kind, color) == [ref |-> ref, kind |-> kind, color |-> color]
MeshOf(ref, geometry, material, pos) ==
  [ref |-> ref, geometry |-> geometry, material |-> material, pos |-> pos]

UnitBox == Geometry("geometry", "BoxGeometry", <<One, One, One>>)

\* Mutant of init(): sample 009 constructs a geometry for every mesh.
GeometriesPerMesh(s) ==
  IF s = "s009" THEN [i \in 1..TORUS_COUNT |-> UnitBox]
  ELSE IF s = "challenge"
    THEN [i \in 1..2 |-> Geometry("boxGeometry", "BoxGeometry", <<100, 100, 100>>)]
  ELSE << UnitBox >>

\* The geometries init() constructs, in order; ref is the field that holds one.
Geometries(s) ==
  CASE s \in {"s002", "s003", "s004", "s005", "s009"} -> << UnitBox >>
    [] s = "s008" ->
         << UnitBox,
            Geometry("boxGeometry", "BoxGeometry", <<One, One, One>>),
            Geometry("sphereGeometry", "SphereGeometry", <<500, 16, 16>>),
            Geometry("torusGeometry", "TorusGeometry", <<500, 200, 8, 16>>),
            Geometry("coneGeometry", "ConeGeometry", <<500, One, 16>>) >>
    [] s = "challenge" ->
         << Geometry("boxGeometry", "BoxGeometry", <<100, 100, 100>>) >>

\* Mutant of init(): a material is constructed for every mesh.
MaterialsPerMesh(s) ==
  [i \in 1..(CASE s = "s008" -> 4 [] s = "s009" -> TORUS_COUNT
                [] s = "challenge" -> 88 [] OTHER -> 1) |->
     Material("material", "MeshPhongMaterial", "0xd74172")]

\* The materials init() constructs, in order.
Materials(s) ==
  CASE s \in {"s002", "s003", "s004"} ->
         << Material("material", "MeshBasicMaterial", "0xd74172") >>
    [] s = "s005" ->
         << Material("material", "MeshLambertMaterial", "0xd74172") >>
    [] s \in {"s008", "s009"} ->
         << Material("material", "MeshPhongMaterial", "0xd74172") >>
    [] s = "challenge" ->
         << Material("mandysPink", "MeshToonMaterial", "#f6bd98"),
            Material("fawn", "MeshToonMaterial", "#eba276"),
            Material("volcano", "MeshToonMaterial", "#4e2a24"),
            Material("sealBrown", "MeshToonMaterial", "#2d1715"),
            Material("wewak", "MeshToonMaterial", "#f59898"),
            Material("onyx", "MeshToonMaterial", "#111"),
            Material("nightShadz", "MeshToonMaterial", "#a23b4b"),
            Material("claret", "MeshToonMaterial", "#6b2633") >>

\* Math.random(): the i-th draw of a stream, a multiple of 1/8 in [0, 1).
\* "spread" gives the ten boxes ten different triples of draws, "stride"
\* repeats after 8 draws (the 9th box gets the draws of the 1st), "stuck"
\* gives the same draw every time.
MathRandom(seedName, i) ==
  CASE seedName = "spread" -> ((i * 3 + i \div 2) % 8) * (One \div 8)
    [] seedName = "stride" -> ((i * 5 + 1) % 8) * (One \div 8)
    [] seedName = "stuck"  -> 0

\* Mutant of the scatter: the draw is not centred on 0.
ScatterUnshifted(r) == (r * 2) * TRANSFORM_SCALE

\* (Math.random() * 2.0 - 1.0) * TRANSFORM_SCALE
Scatter(r) == (r * 2 - One) * TRANSFORM_SCALE

\* Sample 009: TORUS_COUNT meshes of the one geometry and the one material,
\* the i-th scattered by the draws 3i-2, 3i-1, 3i.
BoxArrayMeshes(seedName) ==
  [i \in 1..TORUS_COUNT |->
     MeshOf("boxArray", "geometry", "material",
            << Scatter(MathRandom(seedName, 3 * i - 2)),
               Scatter(MathRandom(seedName, 3 * i - 1)),
               Scatter(MathRandom(seedName, 3 * i)) >>)]

ChallengeMeshes ==
  << MeshOf("skinBright1", "boxGeometry", "mandysPink", <<-100, 0, 0>>),
     MeshOf("skinBright2", "boxGeometry", "mandysPink", <<0, 0, 0>>),
     MeshOf("skinBright3", "boxGeometry", "mandysPink", <<100, 0, 0>>),
     MeshOf("skinBright4", "boxGeometry", "mandysPink", <<200, 100, 0>>),
     MeshOf("skinBright5", "boxGeometry", "mandysPink", <<-200, 100, 0>>),
     MeshOf("skinBright6", "boxGeometry", "mandysPink", <<-300, 100, 0>>),
     MeshOf("skinBright7", "boxGeometry", "mandysPink", <<300, 100, 0>>),
     MeshOf("skinBright8", "boxGeometry", "mandysPink", <<200, 200, 0>>),
     MeshOf("skinBright9", "boxGeometry", "mandysPink", <<100, 200, 0>>),
     MeshOf("skinBright10", "boxGeometry", "mandysPink", <<0, 200, 0>>),
     MeshOf("skinBright11", "boxGeometry", "mandysPink", <<-100, 200, 0>>),
     MeshOf("skinBright12", "boxGeometry", "mandysPink", <<-200, 200, 0>>),
     MeshOf("skinBright13", "boxGeometry", "mandysPink", <<-200, 300, 0>>),
     MeshOf("skinBright14", "boxGeometry", "mandysPink", <<-100, 300, 0>>),
     MeshOf("skinBright15", "boxGeometry", "mandysPink", <<0, 300, 0>>),
     MeshOf("skinBright16", "boxGeometry", "mandysPink", <<100, 300, 0>>),
     MeshOf("skinBright17", "boxGeometry", "mandysPink", <<200, 300, 0>>),
     MeshOf("skinBright18", "boxGeometry", "mandysPink", <<-100, 400, 0>>),
     MeshOf("skinBright19", "boxGeometry", "mandysPink", <<-100, 500, 0>>),
     MeshOf("skinBright20", "boxGeometry", "mandysPink", <<0, 400, 0>>),
     MeshOf("skinBright21", "boxGeometry", "mandysPink", <<0, 500, 0>>),
     MeshOf("skinBright22", "boxGeometry", "mandysPink", <<100, 400, 0>>),
     MeshOf("skinBright23", "boxGeometry", "mandysPink", <<100, 500, 0>>),
     MeshOf("skinBright24", "boxGeometry", "mandysPink", <<300, 400, 0>>),
     MeshOf("skinBright25", "boxGeometry", "mandysPink", <<400, 400, 0>>),
     MeshOf("skinBright26", "boxGeometry", "mandysPink", <<400, 500, 0>>),
     MeshOf("skinBright27", "boxGeometry", "mandysPink", <<300, 500, 0>>),
     MeshOf("skinBright28", "boxGeometry", "mandysPink", <<-300, 400, 0>>),
     MeshOf("skinBright29", "boxGeometry", "mandysPink", <<-400, 400, 0>>),
     MeshOf("skinBright30", "boxGeometry", "mandysPink", <<-400, 500, 0>>),
     MeshOf("skinBright31", "boxGeometry", "mandysPink", <<-300, 500, 0>>),
     MeshOf("skinBright32", "boxGeometry", "mandysPink", <<-500, 400, 0>>),
     MeshOf("skinBright33", "boxGeometry", "mandysPink", <<-500, 300, 0>>),
     MeshOf("skinBright34", "boxGeometry", "mandysPink", <<-600, 500, 0>>),
     MeshOf("skinBright35", "boxGeometry", "mandysPink", <<-600, 400, 0>>),
     MeshOf("skinBright36", "boxGeometry", "mandysPink", <<500, 400, 0>>),
     MeshOf("skinBright37", "boxGeometry", "mandysPink", <<500, 300, 0>>),
     MeshOf("skinBright38", "boxGeometry", "mandysPink", <<600, 500, 0>>),
     MeshOf("skinBright39", "boxGeometry", "mandysPink", <<600, 400, 0>>),
     MeshOf("skinDark1", "boxGeometry", "fawn", <<-200, 0, 0>>),
     MeshOf("skinDark2", "boxGeometry", "fawn", <<200, 0, 0>>),
     MeshOf("skinDark3", "boxGeometry", "fawn", <<-200, 600, 0>>),
     MeshOf("skinDark4", "boxGeometry", "fawn", <<-300, 600, 0>>),
     MeshOf("skinDark5", "boxGeometry", "fawn", <<200, 600, 0>>),
     MeshOf("skinDark6", "boxGeometry", "fawn", <<300, 600, 0>>),
     MeshOf("skinPink1", "boxGeometry", "wewak", <<400, 200, 0>>),
     MeshOf("skinPink2", "boxGeometry", "wewak", <<300, 200, 0>>),
     MeshOf("skinPink3", "boxGeometry", "wewak", <<300, 300, 0>>),
     MeshOf("skinPink4", "boxGeometry", "wewak", <<400, 300, 0>>),
     MeshOf("skinPink5", "boxGeometry", "wewak", <<-400, 200, 0>>),
     MeshOf("skinPink6", "boxGeometry", "wewak", <<-300, 200, 0>>),
     MeshOf("skinPink7", "boxGeometry", "wewak", <<-300, 300, 0>>),
     MeshOf("skinPink8", "boxGeometry", "wewak", <<-400, 300, 0>>),
     MeshOf("mouth1", "boxGeometry", "volcano", <<100, 100, 0>>),
     MeshOf("mouth2", "boxGeometry", "sealBrown", <<0, 100, 0>>),
     MeshOf("mouth3", "boxGeometry", "volcano", <<-100, 100, 0>>),
     MeshOf("eye1", "boxGeometry", "onyx", <<-200, 400, 0>>),
     MeshOf("eye2", "boxGeometry", "onyx", <<-200, 500, 0>>),
     MeshOf("eye3", "boxGeometry", "onyx", <<200, 400, 0>>),
     MeshOf("eye4", "boxGeometry", "onyx", <<200, 500, 0>>),
     MeshOf("hair1", "boxGeometry", "onyx", <<400, 600, 0>>),
     MeshOf("hair2", "boxGeometry", "onyx", <<500, 600, 0>>),
     MeshOf("hair3", "boxGeometry", "onyx", <<500, 500, 0>>),
     MeshOf("hair4", "boxGeometry", "onyx", <<600, 600, 0>>),
     MeshOf("hair5", "boxGeometry", "onyx", <<500, 700, 0>>),
     MeshOf("hair6", "boxGeometry", "onyx", <<400, 700, 0>>),
     MeshOf("hair7", "boxGeometry", "onyx", <<300, 700, 0>>),
     MeshOf("hair8", "boxGeometry", "onyx", <<200, 700, 0>>),
     MeshOf("hair9", "boxGeometry", "onyx", <<100, 700, 0>>),
     MeshOf("hair10", "boxGeometry", "onyx", <<100, 600, 0>>),
     MeshOf("hair11", "boxGeometry", "onyx", <<0, 600, 0>>),
     MeshOf("hair12", "boxGeometry", "onyx", <<-100, 600, 0>>),
     MeshOf("hair13", "boxGeometry", "onyx", <<0, 700, 0>>),
     MeshOf("hair14", "boxGeometry", "onyx", <<-100, 700, 0>>),
     MeshOf("hair15", "boxGeometry", "onyx", <<-200, 700, 0>>),
     MeshOf("hair16", "boxGeometry", "onyx", <<-300, 700, 0>>),
     MeshOf("hair17", "boxGeometry", "onyx", <<-400, 700, 0>>),
     MeshOf("hair18", "boxGeometry", "onyx", <<-400, 600, 0>>),
     MeshOf("hair19", "boxGeometry", "onyx", <<-500, 700, 0>>),
     MeshOf("hair20", "boxGeometry", "onyx", <<-500, 600, 0>>),
     MeshOf("hair21", "boxGeometry", "onyx", <<-500, 500, 0>>),
     MeshOf("hair22", "boxGeometry", "onyx", <<-600, 600, 0>>),
     MeshOf("hat1", "boxGeometry", "nightShadz", <<0, 800, 0>>),
     MeshOf("hat2", "boxGeometry", "nightShadz", <<100, 800, 0>>),
     MeshOf("hat3", "boxGeometry", "nightShadz", <<200, 800, 0>>),
     MeshOf("hat4", "boxGeometry", "nightShadz", <<300, 800, 0>>),
     MeshOf("hat5", "boxGeometry", "claret", <<400, 800, 0>>),
     MeshOf("hat6", "boxGeometry", "nightShadz", <<500, 800, 0>>) >>
ChallengeSceneOrder ==
  << "directionalLight", "ambientLight", "hat1", "hat2", "hat3", "hat4", 
     "hat5", "hat6", "skinBright1", "skinBright2", "skinBright3", 
     "skinBright4", "skinBright5", "skinBright6", "skinBright7", 
     "skinBright8", "skinBright9", "skinBright10", "skinBright11", 
     "skinBright12", "skinBright13", "skinBright14", "skinBright15", 
     "skinBright16", "skinBright17", "skinBright18", "skinBright19", 
     "skinBright20", "skinBright21", "skinBright22", "skinBright23", 
     "skinBright24", "skinBright25", "skinBright26", "skinBright27", 
     "skinBright28", "skinBright29", "skinBright30", "skinBright31", 
     "skinBright32", "skinBright33", "skinBright34", "skinBright35", 
     "skinBright36", "skinBright37", "skinBright38", "skinBright39", 
     "skinDark1", "skinDark2", "skinDark3", "skinDark4", "skinDark5", 
     "skinDark6", "skinPink1", "skinPink2", "skinPink3", "skinPink4", 
     "skinPink5", "skinPink6", "skinPink7", "skinPink8", "mouth1", 
     "mouth2", "mouth3", "eye1", "eye2", "eye3", "eye4", "hair1", "hair2", 
     "hair3", "hair4", "hair5", "hair6", "hair7", "hair8", "hair9", 
     "hair10", "hair11", "hair12", "hair13", "hair14", "hair15", "hair16", 
     "hair17", "hair18", "hair19", "hair20", "hair21", "hair22", 
     "axesHelper" >>

\* The meshes init() constructs, in order, with the position init() leaves
\* each at (a mesh whose position is never set stays at the origin).
Meshes(s, seedName) ==
  CASE s \in {"s002", "s003", "s004", "s005"} ->
         << MeshOf("box", "geometry", "material", <<0, 0, 0>>) >>
    [] s = "s008" ->
         << MeshOf("box", "boxGeometry", "material", <<-One, One, 0>>),
            MeshOf("sphere", "sphereGeometry", "material", <<One, One, 0>>),
            MeshOf("torus", "torusGeometry", "material", <<-One, -One, 0>>),
            MeshOf("cone", "coneGeometry", "material", <<One, -One, 0>>) >>
    [] s = "s009" -> BoxArrayMeshes(seedName)
    [] s = "challenge" -> ChallengeMeshes

\* The objects init() passes to scene.add, in order: a mesh by the field that
\* holds it, or by its index in boxArray.
SceneOrder(s) ==
  CASE s = "s002" -> << "box" >>
    [] s \in {"s003", "s004"} -> << "box", "axesHelper" >>
    [] s = "s005" -> << "directionalLight", "box", "axesHelper" >>
    [] s = "s008" -> << "directionalLight", "ambientLight",
                        "box", "sphere", "torus", "cone", "axesHelper" >>
    [] s = "s009" -> << "directionalLight", "ambientLight" >>
                       \o [i \in 1..TORUS_COUNT |-> "boxArray"]
                       \o << "axesHelper" >>
    [] s = "challenge" -> ChallengeSceneOrder

\* Mutant of render(): the challenge rotates its first mesh as well.
RotationTargetsWithChallenge(s) ==
  CASE s \in {"s004", "s005"} -> {"box"}
    [] s = "s008" -> {"box", "sphere", "torus", "cone"}
    [] s = "s009" -> {"boxArray"}
    [] s = "challenge" -> {"skinBright1"}
    [] OTHER -> {}

\* The fields render() rotates about Y while isDown is true.
RotationTargets(s) ==
  CASE s \in {"s004", "s005"} -> {"box"}
    [] s = "s008" -> {"box", "sphere", "torus", "cone"}
    [] s = "s009" -> {"boxArray"}
    [] OTHER -> {}

\* One child of the scene: a light, the axes helper, or the mesh of that index.
Child(type, mesh) == [type |-> type, mesh |-> mesh]

SceneAdd(meshes, ref) ==
  IF ref \in {"directionalLight", "ambientLight", "axesHelper"}
    THEN Child(ref, 0)
    ELSE Child("mesh", CHOOSE i \in DOMAIN meshes : meshes[i].ref = ref)

\* Mutant of init(): the last scene.add passes the first mesh once more.
SceneChildrenAddsFirstTwice(s, meshes) ==
  [j \in DOMAIN SceneOrder(s) |->
     IF j = Len(SceneOrder(s)) THEN Child("mesh", 1)
     ELSE IF s = "s009"
       THEN (IF j = 1 THEN Child("directionalLight", 0)
             ELSE IF j = 2 THEN Child("ambientLight", 0)
             ELSE Child("mesh", j - 2))
     ELSE SceneAdd(meshes, SceneOrder(s)[j])]

\* The children of the scene after init(), in the order of the scene.add calls.
SceneChildren(s, meshes) ==
  IF s = "s009"
    THEN << Child("directionalLight", 0), Child("ambientLight", 0) >>
           \o [i \in 1..TORUS_COUNT |-> Child("mesh", i)]
           \o << Child("axesHelper", 0) >>
    ELSE [j \in DOMAIN SceneOrder(s) |-> SceneAdd(meshes, SceneOrder(s)[j])]

\* ---------------------------------------------------------------- state
VARIABLES
  sample,      \* which sample the page runs
  hasWebgl,    \* whether the document has the #webgl element
  seed,        \* the seed of Math.random
  win,         \* <<window.innerWidth, window.innerHeight>>
  held,        \* the keys physically held down
  phase,       \* "parsing", "running" (startup returned), "faulted" (init threw)
  app,         \* the App3 instance and the library objects it owns
  raf,         \* requestAnimationFrame: callbacks pending, and registered so far
  calls,       \* the library calls of the most recent render(), in order
  fault,       \* the uncaught error of the callback that ran last, or "none"
  frames,      \* history: render() invocations so far
  downFrames,  \* history: render() invocations that began with isDown true
  boot         \* history: the calls the startup handler made, in order

vars == << sample, hasWebgl, seed, win, held, phase, app, raf, calls, fault,
           frames, downFrames, boot >>

RECURSIVE GCD(_, _)
GCD(a, b) == IF b = 0 THEN a ELSE GCD(b, a % b)

\* w / h: two quotients are the same double exactly when the fractions agree.
Ratio(w, h) == << w \div GCD(w, h), h \div GCD(w, h) >>

NoDraw == [width |-> 0, height |-> 0, proj |-> <<0, 0>>, rotY |-> << >>,
           ticks |-> 0]

\* The fields of a new App3 before the constructor body has run: all undefined.
NoApp ==
  [ isDown     |-> FALSE,
    renderer   |-> [def |-> FALSE, width |-> 0, height |-> 0, draws |-> 0,
                    last |-> NoDraw],
    camera     |-> [def |-> FALSE, aspect |-> <<0, 0>>, proj |-> <<0, 0>>],
    controls   |-> [def |-> FALSE, ticks |-> 0],
    scene      |-> [def |-> FALSE, children |-> << >>],
    geometries |-> << >>,
    materials  |-> << >>,
    meshes     |-> << >> ]

\* Mutant of the constructor: the flag starts raised.
ConstructorFlagUp(a) == [a EXCEPT !.isDown = TRUE]

\* constructor(): the flag is lowered; the listeners are registered (HasKeyHandlers,
\* HasResizeHandler say which) and stay registered from here on.
Constructor(a) == [a EXCEPT !.isDown = FALSE]

\* init() up to the lookup of '#webgl': the renderer exists and has the size of
\* the window.
InitRenderer(a, size) ==
  [a EXCEPT !.renderer = [def |-> TRUE, width |-> size[1], height |-> size[2],
                          draws |-> 0, last |-> NoDraw]]

\* PerspectiveCamera.updateProjectionMatrix(): the projection takes the aspect.
UpdateProjectionMatrix(cam) == [cam EXCEPT !.proj = cam.aspect]

\* The rest of init(): scene, camera (its constructor computes the projection),
\* lights, geometries, materials, meshes at rotation 0 and scale 1 (no sample
\* sets a scale), controls, helper.
InitScene(a, s, seedName, size) ==
  LET plan == Meshes(s, seedName)
      made == [i \in DOMAIN plan |->
                 [ref |-> plan[i].ref, geometry |-> plan[i].geometry,
                  material |-> plan[i].material, pos |-> plan[i].pos,
                  scale |-> << One, One, One >>, rotY |-> Zero]]
  IN  [a EXCEPT !.scene = [def |-> TRUE, children |-> SceneChildren(s, made)],
                !.camera = UpdateProjectionMatrix(
                             [def |-> TRUE, aspect |-> Ratio(size[1], size[2]),
                              proj |-> <<0, 0>>]),
                !.geometries = Geometries(s),
                !.materials = Materials(s),
                !.meshes = made,
                !.controls = [def |-> TRUE, ticks |-> 0]]

\* -------------------------------------------------------------- render()
\* The steps of render() act on m = [app, raf, calls], in the order of the source.

\* Mutants of requestAnimationFrame(this.render): registering twice, or not at all.
RequestAnimationFrameTwice(m) ==
  [m EXCEPT !.raf = [pending |-> @.pending + 2, total |-> @.total + 2],
            !.calls = Append(@, "requestAnimationFrame")]

RequestAnimationFrameNever(m) ==
  [m EXCEPT !.calls = Append(@, "requestAnimationFrame")]

\* requestAnimationFrame(this.render)
RequestAnimationFrame(m) ==
  [m EXCEPT !.raf = [pending |-> @.pending + 1, total |-> @.total + 1],
            !.calls = Append(@, "requestAnimationFrame")]

\* this.controls.update()
ControlsUpdate(m) ==
  [m EXCEPT !.app.controls.ticks = @ + 1,
            !.calls = Append(@, "controls.update")]

\* Mutants of the loop over the targets: each target is also moved up by a
\* unit; the first target is stepped twice.
RotateAllAndLift(s, m) ==
  [m EXCEPT !.app.meshes =
              [i \in DOMAIN @ |->
                 IF @[i].ref \in RotationTargets(s)
                   THEN [@[i] EXCEPT !.rotY = FAdd(@, RotationStep),
                                     !.pos[2] = @ + One]
                   ELSE @[i]],
            !.calls = Append(@, "rotation.y += 0.05")]

RotateAllFirstTwice(s, m) ==
  [m EXCEPT !.app.meshes =
              [i \in DOMAIN @ |->
                 IF @[i].ref \in RotationTargets(s)
                   THEN [@[i] EXCEPT !.rotY =
                           IF i = 1 THEN FAdd(FAdd(@, RotationStep), RotationStep)
                                    ELSE FAdd(@, RotationStep)]
                   ELSE @[i]],
            !.calls = Append(@, "rotation.y += 0.05")]

\* The body of the if: every target of the sample takes one step about Y.
RotateAll(s, m) ==
  [m EXCEPT !.app.meshes =
              [i \in DOMAIN @ |->
                 IF @[i].ref \in RotationTargets(s)
                   THEN [@[i] EXCEPT !.rotY = FAdd(@, RotationStep)]
                   ELSE @[i]],
            !.calls = Append(@, "rotation.y += 0.05")]

\* Mutants of the rotation: the test of the flag inverted; the flag not
\* tested; the last mesh left out.
RotateWhenUp(s, m) ==
  IF m.app.isDown = FALSE /\ RotationTargets(s) # {} THEN RotateAll(s, m) ELSE m

RotateAlways(s, m) ==
  IF RotationTargets(s) # {} THEN RotateAll(s, m) ELSE m

RotateSkipsLast(s, m) ==
  IF m.app.isDown = TRUE /\ RotationTargets(s) # {}
    THEN [RotateAll(s, m) EXCEPT
            !.app.meshes[Len(m.app.meshes)] = m.app.meshes[Len(m.app.meshes)]]
    ELSE m

\* Mutant of the rotation: a keyup handler runs in the middle of it, so that
\* the targets after the first are not rotated and the flag is down afterwards.
RotatePreempted(s, m) ==
  IF m.app.isDown = TRUE /\ RotationTargets(s) # {}
    THEN [RotateAll(s, m) EXCEPT
            !.app.isDown = FALSE,
            !.app.meshes = [i \in DOMAIN @ |->
                              IF i = 1 THEN @[i] ELSE m.app.meshes[i]]]
    ELSE m

\* if (this.isDown === true) { <target>.rotation.y += 0.05 ... }
Rotate(s, m) ==
  IF m.app.isDown = TRUE /\ RotationTargets(s) # {}
    THEN RotateAll(s, m)
    ELSE m

\* this.renderer.render(this.scene, this.camera): what is submitted is the
\* surface size, the camera's projection and every mesh as it is now.
RendererRender(m) ==
  [m EXCEPT !.app.renderer.draws = @ + 1,
            !.app.renderer.last =
               [width |-> m.app.renderer.width,
                height |-> m.app.renderer.height,
                proj |-> m.app.camera.proj,
                rotY |-> [i \in DOMAIN m.app.meshes |-> m.app.meshes[i].rotY],
                ticks |-> m.app.controls.ticks],
            !.calls = Append(@, "renderer.render")]

\* Mutant of render(): the frame is submitted before the rotation is applied.
RenderDrawsFirst(s, m) ==
  CHOOSE done \in
    { Rotate(s, drawn) : drawn \in
      { RendererRender(updated) : updated \in
        { ControlsUpdate(registered) : registered \in
          { RequestAnimationFrame(start) : start \in {m} } } } } : TRUE

\* render(): the four statements in the order of the source, each acting on
\* what the one before it left.
Render(s, m) ==
  CHOOSE done \in
    { RendererRender(rotated) : rotated \in
      { Rotate(s, updated) : updated \in
        { ControlsUpdate(registered) : registered \in
          { RequestAnimationFrame(start) : start \in {m} } } } } : TRUE

\* ------------------------------------------------------------- handlers
\* Mutant of the keydown listener: any key raises the flag.
KeydownHandlerAnyKey(a, key) == [a EXCEPT !.isDown = TRUE]

\* keydown: only the space key raises the flag.
KeydownHandler(a, key) == IF key = " " THEN [a EXCEPT !.isDown = TRUE] ELSE a

\* Mutant of the keyup listener: only the space key lowers the flag.
KeyupHandlerSpaceOnly(a, key) == IF key = " " THEN [a EXCEPT !.isDown = FALSE] ELSE a

\* Mutant of the keyup listener: the release of the space key is ignored.
KeyupHandlerOthersOnly(a, key) ==
  IF key = " " THEN a ELSE [a EXCEPT !.isDown = FALSE]

\* keyup: whatever the key, the flag is lowered.
KeyupHandler(a, key) == [a EXCEPT !.isDown = FALSE]

\* Mutant of the resize listener: updateProjectionMatrix() is not called.
ResizeHandlerStaleProjection(a, w, h) ==
  IF ~a.renderer.def \/ ~a.camera.def
    THEN [app |-> a, fault |-> "TypeError"]
    ELSE [app |-> [a EXCEPT !.renderer.width = w, !.renderer.height = h,
                            !.camera.aspect = Ratio(w, h)],
          fault |-> "none"]

\* Mutant of the resize listener: it lowers the flag as well.
ResizeHandlerLowersFlag(a, w, h) ==
  LET sized == [a EXCEPT !.renderer.width = w, !.renderer.height = h,
                         !.isDown = FALSE]
  IN  IF ~a.renderer.def THEN [app |-> a, fault |-> "TypeError"]
      ELSE IF ~a.camera.def THEN [app |-> sized, fault |-> "TypeError"]
      ELSE [app |-> [sized EXCEPT !.camera = UpdateProjectionMatrix(
                                                 [@ EXCEPT !.aspect = Ratio(w, h)])],
            fault |-> "none"]

\* resize: renderer.setSize, then camera.aspect and updateProjectionMatrix.
\* With this.camera undefined the second statement throws after the first ran.
ResizeHandler(a, w, h) ==
  LET sized == [a EXCEPT !.renderer.width = w, !.renderer.height = h]
  IN  IF ~a.renderer.def THEN [app |-> a, fault |-> "TypeError"]
      ELSE IF ~a.camera.def THEN [app |-> sized, fault |-> "TypeError"]
      ELSE [app |-> [sized EXCEPT !.camera = UpdateProjectionMatrix(
                                                 [@ EXCEPT !.aspect = Ratio(w, h)])],
            fault |-> "none"]

\* ------------------------------------------------------------- startup
\* A call of render() on m = [app, raf, calls, fault]. With this.controls
\* undefined (init() has not completed) the callback is registered and
\* this.controls.update() then throws.
RunRender(s, m) ==
  IF m.app.controls.def
    THEN Render(s, m)
    ELSE [RequestAnimationFrame(m) EXCEPT !.fault = "TypeError"]

\* Mutant of init(): it returns with the camera still undefined.
RunInitCameraLater(s, seedName, size, webgl, st) ==
  IF webgl
    THEN [st EXCEPT !.app = [InitScene(InitRenderer(@, size), s, seedName, size)
                               EXCEPT !.camera = NoApp.camera]]
    ELSE [st EXCEPT !.app = InitRenderer(@, size), !.fault = "TypeError"]

\* init(): without '#webgl', wrapper is null and appendChild throws, with the
\* renderer made and sized and nothing else.
RunInit(s, seedName, size, webgl, st) ==
  IF webgl
    THEN [st EXCEPT !.app = InitScene(InitRenderer(@, size), s, seedName, size)]
    ELSE [st EXCEPT !.app = InitRenderer(@, size), !.fault = "TypeError"]

\* Mutants of the startup handler: render() is called before init(); a throw
\* of init() is caught and the handler goes on.
StartupOrderRenderFirst == << "constructor", "render", "init" >>

\* const app = new App3(); app.init(); app.render()
StartupOrder == << "constructor", "init", "render" >>

StartupStepSwallowsFault(step, s, seedName, size, webgl, st) ==
  LET go == [st EXCEPT !.fault = "none", !.boot = Append(@, step)]
  IN  CASE step = "constructor" -> [go EXCEPT !.app = Constructor(@)]
        [] step = "init" -> RunInit(s, seedName, size, webgl, go)
        [] step = "render" ->
             [RunRender(s, go) EXCEPT !.ran = @ + 1,
                !.ranDown = @ + (IF go.app.isDown THEN 1 ELSE 0)]

\* One statement of the startup handler acting on st = [app, raf, calls,
\* fault, boot, ran, ranDown]; an uncaught throw ends the handler, so that
\* the statements after it do not run.
StartupStep(step, s, seedName, size, webgl, st) ==
  IF st.fault # "none" THEN st
  ELSE LET go == [st EXCEPT !.boot = Append(@, step)]
       IN  CASE step = "constructor" -> [go EXCEPT !.app = Constructor(@)]
             [] step = "init" -> RunInit(s, seedName, size, webgl, go)
             [] step = "render" ->
                  [RunRender(s, go) EXCEPT !.ran = @ + 1,
                     !.ranDown = @ + (IF go.app.isDown THEN 1 ELSE 0)]

\* The startup handler: its statements one after the other.
Startup(s, seedName, size, webgl, a, r) ==
  CHOOSE done \in
    { StartupStep(StartupOrder[3], s, seedName, size, webgl, second) :
      second \in
      { StartupStep(StartupOrder[2], s, seedName, size, webgl, first) :
        first \in
        { StartupStep(StartupOrder[1], s, seedName, size, webgl,
                      [app |-> a, raf |-> r, calls |-> << >>, fault |-> "none",
                       boot |-> << >>, ran |-> 0, ranDown |-> 0]) } } } : TRUE

\* -------------------------------------------------------------- actions
Init ==
  /\ sample \in Samples
  /\ hasWebgl \in BOOLEAN
  /\ seed \in (IF sample = "s009" THEN Seeds ELSE {"spread"})
  /\ win \in Sizes
  /\ held = {}
  /\ phase = "parsing"
  /\ app = NoApp
  /\ raf = [pending |-> 0, total |-> 0]
  /\ calls = << >>
  /\ fault = "none"
  /\ frames = 0
  /\ downFrames = 0
  /\ boot = << >>

\* DOMContentLoaded: new App3(), app.init(), app.render(), in one callback.
\* Without '#webgl', wrapper is null and init() throws at appendChild: the
\* callback ends there.
DOMContentLoaded ==
  /\ phase = "parsing"
  /\ \E st \in { Startup(sample, seed, win, hasWebgl, app, raf) } :
       /\ phase' = (IF st.fault = "none" THEN "running" ELSE "faulted")
       /\ app' = st.app
       /\ raf' = st.raf
       /\ calls' = st.calls
       /\ fault' = st.fault
       /\ boot' = st.boot
       /\ frames' = frames + st.ran
       /\ downFrames' = downFrames + st.ranDown
  /\ UNCHANGED << sample, hasWebgl, seed, win, held >>

\* A key goes down (or repeats while held); the keydown listener runs if the
\* constructor has registered one.
KeyDown(key) ==
  /\ held' = held \cup {key}
  /\ IF phase # "parsing" /\ HasKeyHandlers(sample)
       THEN app' = KeydownHandler(app, key) /\ fault' = "none"
       ELSE UNCHANGED << app, fault >>
  /\ UNCHANGED << sample, hasWebgl, seed, win, phase, raf, calls, frames,
                  downFrames, boot >>

\* A held key is released; the keyup listener runs if there is one.
KeyUp(key) ==
  /\ key \in held
  /\ held' = held \ {key}
  /\ IF phase # "parsing" /\ HasKeyHandlers(sample)
       THEN app' = KeyupHandler(app, key) /\ fault' = "none"
       ELSE UNCHANGED << app, fault >>
  /\ UNCHANGED << sample, hasWebgl, seed, win, phase, raf, calls, frames,
                  downFrames, boot >>

\* The window takes another size; the resize listener runs if there is one.
Resize(w, h) ==
  /\ << w, h >> # win
  /\ win' = << w, h >>
  /\ IF phase # "parsing" /\ HasResizeHandler(sample)
       THEN \E r \in { ResizeHandler(app, w, h) } :
              app' = r.app /\ fault' = r.fault
       ELSE UNCHANGED << app, fault >>
  /\ UNCHANGED << sample, hasWebgl, seed, held, phase, raf, calls, frames,
                  downFrames, boot >>

\* A display refresh: one pending callback is taken and render() runs.
\* followed says whether the run is still followed at this frame (the bound).
FrameStep(followed) ==
  /\ raf.pending > 0
  /\ followed
  /\ \E m \in { RunRender(sample, [app |-> app,
                                    raf |-> [raf EXCEPT !.pending = @ - 1],
                                    calls |-> << >>, fault |-> "none"]) } :
       /\ app' = m.app
       /\ raf' = m.raf
       /\ calls' = m.calls
       /\ fault' = m.fault
  /\ frames' = frames + 1
  /\ downFrames' = downFrames + (IF app.isDown THEN 1 ELSE 0)
  /\ UNCHANGED << sample, hasWebgl, seed, win, held, phase, boot >>

Frame == FrameStep(frames < MaxFrames)

Next ==
  \/ DOMContentLoaded
  \/ \E key \in Keys : KeyDown(key)
  \/ \E key \in Keys : KeyUp(key)
  \/ \E size \in Sizes : Resize(size[1], size[2])
  \/ Frame

Spec == Init /\ [][Next]_vars

\* The display refreshes for as long as the page lives: a pending frame
\* callback is eventually run.
LiveSpec == Spec /\ WF_vars(Frame)

\* The end-to-end scenario: sample 009 with the page complete, under every
\* interleaving of the events, followed for MaxScenarioFrames frame steps with
\* the flag up and MaxIdleFrames with the flag down.
ScenarioInit == Init /\ sample = "s009" /\ hasWebgl = TRUE

ScenarioFrame ==
  FrameStep(IF app.isDown THEN downFrames < MaxScenarioFrames
                          ELSE frames - downFrames < MaxIdleFrames)

ScenarioNext ==
  \/ DOMContentLoaded
  \/ \E key \in Keys : KeyDown(key)
  \/ \E key \in Keys : KeyUp(key)
  \/ \E size \in Sizes : Resize(size[1], size[2])
  \/ ScenarioFrame

ScenarioSpec == ScenarioInit /\ [][ScenarioNext]_vars

\* =============================================================== claims
Running == phase = "running"

\* The constructor has run: the listeners of the sample are registered.
Listening == phase # "parsing"

\* The step is one run of render(): the first one, or a display refresh.
FrameRan == frames' = frames + 1

RotYs(a) == [i \in DOMAIN a.meshes |-> a.meshes[i].rotY]

\* C1: in a sample with key handlers, a keydown of the space key raises isDown
\* and a keydown of any other key leaves isDown as it was. A key going down
\* is seen as it joins held; a repeat of a held key leaves held alone, and can
\* then only have raised the flag, with the space key among the held ones.
C1_KeydownRaisesOnlyOnSpace ==
  [][ (Listening /\ HasKeyHandlers(sample)) =>
        /\ \A key \in Keys :
             (key \notin held /\ held' = held \cup {key}) =>
               app'.isDown = (IF key = " " THEN TRUE ELSE app.isDown)
        /\ (held' = held /\ win' = win /\ ~FrameRan /\ app'.isDown # app.isDown) =>
             (" " \in held /\ app'.isDown = TRUE) ]_vars

\* The flag is up with the space key and another key both held, so a keydown
\* of each has been handled.
C1_Witness == Running /\ app.isDown /\ held = {" ", "a"}

\* C2: in a sample with key handlers, a keyup of any key lowers isDown,
\* whatever it was and whichever keys stay held.
C2_KeyupAlwaysLowers ==
  [][ (Listening /\ HasKeyHandlers(sample) /\ held' # held /\ held' \subseteq held)
        => app'.isDown = FALSE ]_vars

\* The flag was up during a frame and is down again while the space key is
\* still held: another key's release lowered it.
C2_Witness == Running /\ " " \in held /\ ~app.isDown /\ downFrames >= 1

\* C3: a run of render() that begins with isDown false leaves the Y rotation
\* of every mesh as it was (in the first run, as init() made it: 0).
C3_IdleFrameKeepsRotation ==
  [][ FrameRan =>
        /\ (Running /\ ~app.isDown) => RotYs(app') = RotYs(app)
        /\ ~Running => \A i \in DOMAIN app'.meshes : app'.meshes[i].rotY = Zero ]_vars

\* The last frame ran with the flag down, after frames that rotated.
C3_Witness ==
  /\ Running /\ sample = "s008" /\ downFrames >= 2 /\ frames >= 4
  /\ calls = << "requestAnimationFrame", "controls.update", "renderer.render" >>

\* C4: a run of render() that begins with isDown true takes the Y rotation of
\* every mesh of samples 004, 005, 008 (box, sphere, torus, cone) and 009 (the
\* TORUS_COUNT boxes) to rotation.y + 0.05 in double precision: one step, the
\* same for all, none skipped.
C4_FlaggedFrameStepsEveryTarget ==
  [][ (FrameRan /\ Running /\ app.isDown
         /\ sample \in {"s004", "s005", "s008", "s009"}) =>
        /\ Len(app.meshes) = (CASE sample = "s008" -> 4
                                [] sample = "s009" -> TORUS_COUNT
                                [] OTHER -> 1)
        /\ \A i \in DOMAIN app.meshes :
             /\ app'.meshes[i].rotY = FAdd(app.meshes[i].rotY, RotationStep)
             /\ app'.meshes[i].rotY # app.meshes[i].rotY ]_vars

\* Several flagged frames have run in the sample with the array of boxes.
C4_Witness ==
  /\ Running /\ sample = "s009" /\ downFrames >= 3
  /\ \A i \in DOMAIN app.meshes : ~IsZero(app.meshes[i].rotY)

\* n * x in double precision (the JavaScript product n * x), for a natural
\* n < 2^17 and x >= 0: the exact product top * 2^53 + hi * 2^27 + lo, halved
\* until top is 0, then rounded once.
RECURSIVE Normalize(_)
Normalize(p) ==
  IF p.top = 0 THEN p
  ELSE Normalize([e   |-> p.e + 1,
                  top |-> p.top \div 2,
                  hi  |-> (p.hi \div 2) + (p.top % 2) * (HiTop \div 2),
                  lo  |-> (p.lo \div 2) + (p.hi % 2) * (Limb \div 2),
                  g   |-> p.lo % 2,
                  s   |-> IF p.g = 1 THEN 1 ELSE p.s])

FMulNat(n, x) ==
  IF n = 0 \/ IsZero(x) THEN Zero
  ELSE LET half   == 2 ^ 13
           loHigh == (x.lo \div (2 * half)) * n
           loLow  == (loHigh % half) * (2 * half) + (x.lo % (2 * half)) * n
           carry  == (loHigh \div half) + (loLow \div Limb)
           hiHigh == (x.hi \div half) * n
           hiLow  == (hiHigh % half) * half + (x.hi % half) * n + carry
           p == Normalize([e |-> x.e,
                           top |-> (hiHigh \div half) + (hiLow \div HiTop),
                           hi |-> hiLow % HiTop, lo |-> loLow % Limb,
                           g |-> 0, s |-> 0])
       IN  RoundNearestEven(p.e, p)

\* Extend(sums, k) appends k more partial sums of 0.05 + 0.05 + ... to sums.
RECURSIVE Extend(_, _)
Extend(sums, k) ==
  IF k = 0 THEN sums
  ELSE CHOOSE r \in
         { Extend(longer, k - 1) : longer \in
           { Append(sums, FAdd(sums[Len(sums)], RotationStep)) } } : TRUE

\* PartialSums(n) lists the n + 1 values 0, 0 + 0.05, (0 + 0.05) + 0.05, ...,
\* built ten at a time.
RECURSIVE PartialSums(_)
PartialSums(n) ==
  IF n < 10 THEN Extend(<< Zero >>, n)
  ELSE CHOOSE r \in
         { Extend(sums, 10) : sums \in { PartialSums(n - 10) } } : TRUE

StepSums == PartialSums(MaxScenarioFrames)

\* 0.05 added n times to 0, each sum rounded as the source's += rounds it.
Accumulate(n) == StepSums[n + 1]

\* 4.99999999999999 = 0x1.3fffffffffff5p+2, eleven units in the last place
\* below 5.0.
JustBelowFive == [e |-> 2, hi |-> 41943039, lo |-> 134217717]

\* C5 as stated: in sample 009, after any events, the Y rotation of every box
\* is 0.05 times the number of frames that began with isDown true (5.0 after
\* 100 of them), and every position is the one init() gave.
C5_RotationIsStepTimesCount ==
  Running =>
    \A i \in DOMAIN app.meshes :
      /\ app.meshes[i].rotY = FMulNat(downFrames, RotationStep)
      /\ (downFrames = 100 => app.meshes[i].rotY = Five)
      /\ app.meshes[i].pos = Meshes(sample, seed)[i].pos

\* C5 as amended: the Y rotation of every box is what adding 0.05 once per
\* flagged frame gives in double precision, which is 0.05 times the count only
\* up to rounding: after 100 flagged frames it is 4.99999999999999, not 5.0.
\* Every position is the one init() gave.
C5_RotationIsAccumulatedSteps ==
  Running =>
    LET sum == Accumulate(downFrames)
    IN  /\ Len(app.meshes) = TORUS_COUNT
        /\ \A i \in DOMAIN app.meshes :
             /\ app.meshes[i].rotY = sum
             /\ app.meshes[i].pos = Meshes(sample, seed)[i].pos
        /\ downFrames = 100 => (sum = JustBelowFive /\ sum # Five)

\* 100 flagged frames have run, with resizes and key events in between.
C5_Witness ==
  /\ Running /\ downFrames = 100 /\ frames = 100 + MaxIdleFrames
  /\ app.meshes[TORUS_COUNT].rotY = JustBelowFive
  /\ app.renderer.width # app.renderer.last.width

\* C6: in a running sample with a resize handler, a resize to (W2, H2) sets the
\* surface size to (W2, H2) and the camera's aspect and projection to W2/H2
\* without error, and a run of render() submits the size and the ratio of the
\* window as the last resize before it left them, without error.
C6_ResizeReachesNextFrame ==
  [][ (Running /\ HasResizeHandler(sample)) =>
        /\ win' # win =>
             /\ app'.renderer.width = win'[1]
             /\ app'.renderer.height = win'[2]
             /\ app'.camera.aspect = Ratio(win'[1], win'[2])
             /\ app'.camera.proj = Ratio(win'[1], win'[2])
             /\ fault' = "none"
        /\ FrameRan =>
             /\ app'.renderer.last.width = win[1]
             /\ app'.renderer.last.height = win[2]
             /\ app'.renderer.last.proj = Ratio(win[1], win[2])
             /\ fault' = "none" ]_vars

\* A resize has been handled since the last frame: the surface and the
\* projection have the new size, the last submission still has the old one.
C6_Witness ==
  /\ Running /\ HasResizeHandler(sample) /\ frames >= 2
  /\ app.renderer.width = win[1] /\ app.renderer.height = win[2]
  /\ app.camera.proj = Ratio(win[1], win[2])
  /\ app.renderer.last.proj # app.camera.proj
  /\ app.renderer.last.width # app.renderer.width

\* C7: in sample 009 and in the challenge, init() constructs one geometry,
\* which every mesh refers to (10 and 88 meshes), and as many materials as
\* there are distinct styles (1 and 8 colours), each used by some mesh.
C7_OneShapePerInstancedSample ==
  (Running /\ sample \in {"s009", "challenge"}) =>
    /\ Len(app.meshes) = (IF sample = "s009" THEN TORUS_COUNT ELSE 88)
    /\ Len(app.geometries) = 1
    /\ \A i \in DOMAIN app.meshes : app.meshes[i].geometry = app.geometries[1].ref
    /\ Len(app.materials) = (IF sample = "s009" THEN 1 ELSE 8)
    /\ Cardinality({ << app.materials[j].kind, app.materials[j].color >> :
                       j \in DOMAIN app.materials }) = Len(app.materials)
    /\ { app.meshes[i].material : i \in DOMAIN app.meshes }
         = { app.materials[j].ref : j \in DOMAIN app.materials }

\* The challenge has been set up: 88 meshes over 8 materials.
C7_Witness ==
  /\ Running /\ sample = "challenge" /\ Len(app.meshes) = 88
  /\ Cardinality({ app.meshes[i].material : i \in DOMAIN app.meshes }) = 8

\* C8: every run of render() registers itself, updates the controls, applies
\* the rotation if any, and submits the frame, in this order and once each:
\* the submission shows the controls and the rotations as the steps before it
\* left them, and registrations, control updates and submissions each count
\* the runs of render().
C8_FrameStepsInOrder ==
  Running =>
    /\ calls \in { << "requestAnimationFrame", "controls.update",
                      "renderer.render" >>,
                   << "requestAnimationFrame", "controls.update",
                      "rotation.y += 0.05", "renderer.render" >> }
    /\ app.renderer.last.ticks = app.controls.ticks
    /\ app.renderer.last.rotY = RotYs(app)
    /\ raf.total = frames
    /\ app.controls.ticks = frames
    /\ app.renderer.draws = frames

\* Frames with and without the flag have run; the last one rotated.
C8_Witness ==
  /\ Running /\ frames >= 4 /\ downFrames >= 1 /\ downFrames < frames - 1
  /\ Len(calls) = 4

\* C9: once startup has made its one call of render(), exactly one frame
\* callback is pending between frame steps.
C9_OnePendingCallback == Running => raf.pending = 1

\* Several frame steps have each taken the pending callback and left one.
C9_Witness == Running /\ frames >= 3 /\ raf.pending = 1 /\ raf.total >= 3

\* C10: once startup has completed, with display refreshes delivered fairly,
\* frame steps keep occurring whatever key and resize events come in between:
\* every frame the run is followed for is reached.
C10_FramesKeepComing == Running ~> (frames = MaxFrames)

\* The last followed frame has run, with keys held and the flag up.
C10_Witness == Running /\ frames = MaxFrames /\ app.isDown /\ held = {" ", "a"}


\* Everything init() creates exists.
InitDone ==
  /\ app.renderer.def /\ app.scene.def /\ app.camera.def /\ app.controls.def
  /\ Len(app.meshes) = Len(Meshes(sample, seed))
  /\ Len(app.scene.children) = Len(SceneOrder(sample))

\* C11: the startup handler calls the constructor, init() and render() in this
\* order and once each (render() not at all when init() throws), and whenever
\* a run of render() has happened, init() had created the renderer, the
\* scene, the camera, the meshes and the controls.
C11_StartupInOrder ==
  /\ phase = "parsing" => (boot = << >> /\ frames = 0)
  /\ Running => boot = << "constructor", "init", "render" >>
  /\ phase = "faulted" => boot = << "constructor", "init" >>
  /\ frames >= 1 => (Running /\ InitDone /\ app.renderer.draws = frames)

\* Startup has completed in the largest scene and frames have run since.
C11_Witness ==
  /\ Running /\ sample = "challenge" /\ frames >= 3 /\ InitDone
  /\ boot = << "constructor", "init", "render" >>

\* The Y rotations after a step that adds 0.05 to every target of the sample.
AllStepped(a) ==
  [i \in DOMAIN a.meshes |->
     IF a.meshes[i].ref \in RotationTargets(sample)
       THEN FAdd(a.meshes[i].rotY, RotationStep)
       ELSE a.meshes[i].rotY]

\* C12: a run of render() is one uninterrupted step: no key goes down or up
\* and the window takes no other size within it, the flag is after it what it
\* was before it, exactly one run of render() happens (one registration, one
\* submission), and either every target was rotated or none was; a key or
\* resize handler runs outside any run of render(): it leaves the count of
\* frames, the pending callbacks and every rotation alone.
C12_FrameStepsDoNotOverlap ==
  [][ /\ FrameRan =>
           /\ held' = held /\ win' = win
           /\ app'.isDown = app.isDown
           /\ raf'.total = raf.total + 1
           /\ app'.renderer.draws = app.renderer.draws + 1
           /\ Running => RotYs(app') = (IF app.isDown THEN AllStepped(app)
                                                     ELSE RotYs(app))
      /\ (held' # held \/ win' # win) =>
           /\ frames' = frames /\ raf' = raf /\ calls' = calls
           /\ RotYs(app') = RotYs(app) ]_vars

\* Flagged frames have run in the sample with four targets, between key and
\* resize events.
C12_Witness ==
  /\ Running /\ sample = "s008" /\ downFrames >= 2 /\ frames > downFrames + 1
  /\ held = {"a"} /\ app.renderer.last.width # app.renderer.width
  /\ \A i \in DOMAIN app.meshes : app.meshes[i].rotY = app.meshes[1].rotY

\* Some material is the material of two meshes; some geometry is the geometry
\* of two meshes.
StyleRepeats ==
  \E i, j \in DOMAIN app.meshes :
    i # j /\ app.meshes[i].material = app.meshes[j].material

ShapeRepeats ==
  \E i, j \in DOMAIN app.meshes :
    i # j /\ app.meshes[i].geometry = app.meshes[j].geometry

\* C13 as stated: in every sample where a visual style repeats across meshes,
\* fewer geometries and fewer materials are constructed than there are meshes.
C13_FewerShapesAndStylesThanNodes ==
  (Running /\ StyleRepeats) =>
    /\ Len(app.geometries) < Len(app.meshes)
    /\ Len(app.materials) < Len(app.meshes)

\* C13 as amended: in every sample where a material repeats across meshes
\* (008, 009, challenge) fewer materials are constructed than there are
\* meshes; where a geometry repeats across meshes (009, challenge) fewer
\* geometries are constructed than there are meshes; in 008 the four meshes
\* have four geometries of their own and five geometries are constructed.
C13_FewerStylesThanNodes ==
  (Running /\ StyleRepeats) =>
    /\ sample \in {"s008", "s009", "challenge"}
    /\ Len(app.materials) < Len(app.meshes)
    /\ ShapeRepeats <=> sample \in {"s009", "challenge"}
    /\ ShapeRepeats => Len(app.geometries) < Len(app.meshes)
    /\ sample = "s008" => (Len(app.geometries) = 5 /\ Len(app.meshes) = 4)

\* Sample 008 is set up: one material for four meshes, five geometries.
C13_Witness ==
  /\ Running /\ sample = "s008" /\ StyleRepeats /\ ~ShapeRepeats
  /\ Len(app.materials) = 1 /\ Len(app.geometries) = 5 /\ Len(app.meshes) = 4

\* The meshes that are children of the scene.
AttachedMeshes ==
  { app.scene.children[j].mesh :
      j \in { k \in DOMAIN app.scene.children :
                app.scene.children[k].type = "mesh" } }

\* C14: init() constructs no two geometries of the same kind and dimensions,
\* and every geometry it constructs is the geometry of a mesh attached to the
\* scene.
C14_EachShapeConstructedOnce ==
  Running =>
    /\ \A i, j \in DOMAIN app.geometries :
         (app.geometries[i].kind = app.geometries[j].kind
            /\ app.geometries[i].dims = app.geometries[j].dims) => i = j
    /\ \A i \in DOMAIN app.geometries :
         \E n \in AttachedMeshes : app.meshes[n].geometry = app.geometries[i].ref

\* C15: when '#webgl' is missing, init() throws, the throw leaves the startup
\* handler uncaught (a TypeError), render() is not called, and from then on
\* no frame callback is ever registered and no frame is ever submitted.
C15_FailedSetupNeverRenders ==
  [][ (~hasWebgl /\ phase' # "parsing") =>
        /\ phase' = "faulted"
        /\ phase = "parsing" => fault' = "TypeError"
        /\ boot' = << "constructor", "init" >>
        /\ raf'.total = 0 /\ raf'.pending = 0
        /\ frames' = 0 /\ calls' = << >>
        /\ app'.renderer.draws = 0
        /\ ~FrameRan ]_vars

\* Setup has failed and key and resize events have been delivered since.
C15_Witness ==
  /\ phase = "faulted" /\ sample = "s008" /\ held = {" ", "a"}
  /\ app.renderer.def /\ ~app.controls.def /\ raf.total = 0

\* C16: once init() has thrown, no later event changes the flag, the size of
\* the drawing surface or the camera.
C16_FailedSetupIsTerminal ==
  [][ phase = "faulted" =>
        /\ app'.isDown = app.isDown
        /\ app'.renderer.width = app.renderer.width
        /\ app'.renderer.height = app.renderer.height
        /\ app'.camera = app.camera ]_vars

\* C17: after setup every mesh init() constructed is a child of the scene
\* exactly once (the 10 elements of boxArray in 009, all 88 meshes in the
\* challenge), and no frame step, key event or resize event changes the
\* children of the scene or the number of meshes.
C17_SceneGraphIsFixed ==
  /\ [](Running =>
          /\ \A n \in DOMAIN app.meshes :
               Cardinality({ j \in DOMAIN app.scene.children :
                               app.scene.children[j] = Child("mesh", n) }) = 1
          /\ AttachedMeshes = DOMAIN app.meshes
          /\ sample = "s009" => Cardinality(AttachedMeshes) = TORUS_COUNT
          /\ sample = "challenge" => Cardinality(AttachedMeshes) = 88)
  /\ [][ Running =>
           /\ app'.scene.children = app.scene.children
           /\ Len(app'.meshes) = Len(app.meshes) ]_vars

\* Sample 009 has run frames, with rotation, after a resize.
C17_Witness ==
  /\ Running /\ sample = "s009" /\ frames >= 3 /\ downFrames >= 1
  /\ Cardinality(AttachedMeshes) = TORUS_COUNT
  /\ Len(app.scene.children) = TORUS_COUNT + 3
  /\ app.renderer.width # 4

C19_RotationOnlyWhileSpaceHeld ==
  /\ [](app.isDown => " " \in held)
  /\ [][ (Running /\ FrameRan /\ RotYs(app') # RotYs(app)) =>
           (" " \in held /\ " " \in held') ]_vars

\* Sample 004 has rotated its box in several frames with only the space key
\* held.
C19_Witness ==
  /\ Running /\ sample = "s004" /\ downFrames >= 2 /\ app.isDown
  /\ held = {" "} /\ ~IsZero(app.meshes[1].rotY) /\ Len(calls) = 4

\* C20: in sample 009 every coordinate of every box is (r * 2 - 1) * 5 for a
\* draw r of its own (the k-th coordinate of the i-th box takes draw
\* 3 (i - 1) + k, no draw serves two coordinates), with 0 <= r < 1, and so
\* lies in [-5, 5).
C20_ScatterWithinCube ==
  (Running /\ sample = "s009") =>
    \A i \in DOMAIN app.meshes : \A k \in 1..3 :
      LET r == MathRandom(seed, 3 * (i - 1) + k)
      IN  /\ 0 <= r /\ r < One
          /\ app.meshes[i].pos[k] = (r * 2 - One) * 5
          /\ -5 * One <= app.meshes[i].pos[k]
          /\ app.meshes[i].pos[k] < 5 * One

\* The boxes are scattered: some coordinate is at the lower edge -5, some is
\* above 3, and the first box has three different coordinates.
C20_Witness ==
  /\ Running /\ sample = "s009" /\ frames >= 2
  /\ \E i \in DOMAIN app.meshes : \E k \in 1..3 : app.meshes[i].pos[k] = -5 * One
  /\ \E i \in DOMAIN app.meshes : \E k \in 1..3 : app.meshes[i].pos[k] > 3 * One
  /\ Cardinality({ app.meshes[1].pos[k] : k \in 1..3 }) = 3
  /\ app.meshes[1].pos # app.meshes[2].pos

\* What render() may not touch in a mesh: everything but the Y rotation.
Fixed(mesh) ==
  [ref |-> mesh.ref, geometry |-> mesh.geometry, material |-> mesh.material,
   pos |-> mesh.pos, scale |-> mesh.scale]

\* The app as init() leaves it when this startup succeeds.
AfterInit == InitScene(InitRenderer(Constructor(app), win), sample, seed, win)

\* C21: a run of render() leaves isDown as it found it, leaves the reference,
\* geometry, material, position and scale of every mesh alone, and changes
\* the Y rotation of no mesh that is not a rotation target of the sample;
\* besides rotations it changes only the controls and the renderer. The first
\* run leaves the flag as the constructor and the rest as init() made them.
C21_FrameOnlyRotatesTargets ==
  [][ FrameRan =>
        \E before \in { IF Running THEN app ELSE AfterInit } :
          /\ app'.isDown = before.isDown
          /\ DOMAIN app'.meshes = DOMAIN before.meshes
          /\ \A i \in DOMAIN before.meshes :
               /\ Fixed(app'.meshes[i]) = Fixed(before.meshes[i])
               /\ before.meshes[i].ref \notin RotationTargets(sample) =>
                    app'.meshes[i].rotY = before.meshes[i].rotY
          /\ [app' EXCEPT !.meshes = before.meshes,
                          !.controls = before.controls,
                          !.renderer = before.renderer] = before ]_vars

\* Sample 009 with scattered boxes has stepped its rotations twice, the last
\* frame being one of them.
C21_Witness ==
  /\ Running /\ sample = "s009" /\ seed = "stride" /\ app.isDown
  /\ downFrames = 2 /\ Len(calls) = 4 /\ calls[3] = "rotation.y += 0.05"
  /\ app.meshes[TORUS_COUNT].rotY # Zero
  /\ app.meshes[1].pos # app.meshes[2].pos

\* C22: where the listeners are registered, a key going down, repeating or
\* going up changes nothing of the app but isDown (no rotation, position,
\* camera or surface size) and registers no frame; a resize changes nothing of
\* the app but the size of the renderer's surface and the aspect and
\* projection of the camera (not isDown, not a rotation or position).
C22_HandlersHaveDisjointEffects ==
  [][ Listening =>
        /\ (held' # held \/ (win' = win /\ ~FrameRan)) =>
             /\ [app' EXCEPT !.isDown = app.isDown] = app
             /\ raf' = raf /\ frames' = frames
        /\ win' # win =>
             /\ [app' EXCEPT !.renderer.width = app.renderer.width,
                             !.renderer.height = app.renderer.height,
                             !.camera.aspect = app.camera.aspect,
                             !.camera.proj = app.camera.proj] = app
             /\ raf' = raf /\ frames' = frames ]_vars

\* Since the last frame, which rotated, the window has taken another size and
\* aspect, with the flag still up and two keys held.
C22_Witness ==
  /\ Running /\ sample = "s009" /\ seed = "spread" /\ frames >= 2
  /\ app.isDown /\ held = {" ", "a"}
  /\ app.meshes[1].rotY # Zero
  /\ app.renderer.width # app.renderer.last.width
  /\ app.camera.proj # app.renderer.last.proj
  /\ app.renderer.last.rotY = RotYs(app)

\* C23: when startup succeeds, the step that registers the listeners is the
\* step that runs the constructor, init() and the first render(), with no key
\* or resize event within it; from then on the renderer and the camera are
\* defined, so that no listener throws on an undefined this.renderer or
\* this.camera.
C23_NoHandlerBeforeInit ==
  /\ [](Running =>
          /\ app.renderer.def /\ app.camera.def
          /\ fault = "none")
  /\ [][ (~Listening /\ Running') =>
           /\ boot' = << "constructor", "init", "render" >>
           /\ held' = held /\ win' = win
           /\ app'.renderer.def /\ app'.camera.def
           /\ app'.renderer.width = win[1] /\ app'.renderer.height = win[2] ]_vars

\* Startup has succeeded and, before the second frame, the resize listener
\* has run on the renderer and camera of init() with a key held, with no error.
C23_Witness ==
  /\ Running /\ sample = "s008" /\ fault = "none"
  /\ frames = 1 /\ held = {"a"} /\ ~app.isDown
  /\ app.renderer.width # app.renderer.last.width
  /\ app.camera.def /\ app.camera.proj = Ratio(win[1], win[2])

\* Some mesh has a Y rotation other than 0.
Rotated == \E i \in DOMAIN app.meshes : app.meshes[i].rotY # Zero

\* C24: the first run of render(), the one the startup handler makes, begins
\* with isDown false whichever keys are held, so that after it every mesh is
\* still at Y rotation 0 and no rotation statement has run; a rotation leaves
\* 0 only in a later run of render(), one that begins with isDown true, and
\* isDown is raised by nothing but the keydown of the space key.
C24_FirstFrameNeverRotates ==
  /\ []((Running /\ frames = 1) => (~Rotated /\ downFrames = 0))
  /\ [](Rotated => (frames >= 2 /\ downFrames >= 1))
  /\ [][ /\ (~Listening /\ Running') =>
              /\ frames' = 1 /\ downFrames' = 0 /\ ~app'.isDown
              /\ calls' = << "requestAnimationFrame", "controls.update",
                             "renderer.render" >>
         /\ (~Rotated /\ Rotated') => (Running /\ FrameRan /\ app.isDown)
         /\ (~app.isDown /\ app'.isDown) =>
              (Listening /\ " " \in held' /\ ~FrameRan) ]_vars

\* The space key was held throughout startup; the first frame has run and
\* nothing is rotated, the flag being still down.
C24_Witness ==
  /\ Running /\ sample = "s008" /\ frames = 1 /\ " " \in held
  /\ ~app.isDown /\ ~Rotated /\ raf.pending = 1
  /\ app.renderer.last.rotY = << Zero, Zero, Zero, Zero >>
  /\ app.renderer.width = app.renderer.last.width

\* The meshes render() rotates in this sample.
Animated == { i \in DOMAIN app.meshes : app.meshes[i].ref \in RotationTargets(sample) }

\* C25: in samples 008 (box, sphere, torus, cone) and 009 (the TORUS_COUNT
\* elements of boxArray), in every state between steps, all the meshes
\* render() rotates have the same Y rotation, and the frame that was last
\* submitted showed them at one common rotation as well.
C25_TargetsRotateTogether ==
  (sample \in {"s008", "s009"} /\ Running) =>
    /\ Cardinality(Animated) = (IF sample = "s008" THEN 4 ELSE TORUS_COUNT)
    /\ \A i, j \in Animated : app.meshes[i].rotY = app.meshes[j].rotY
    /\ \A i, j \in Animated :
         app.renderer.last.rotY[i] = app.renderer.last.rotY[j]

\* Sample 008 has rotated in some frames and not in others, through key and
\* resize events, and its four meshes are at one rotation other than 0.
C25_Witness ==
  /\ Running /\ sample = "s008" /\ Cardinality(Animated) = 4
  /\ downFrames >= 3 /\ frames >= downFrames + 2
  /\ app.renderer.width # 4 /\ held = {" "} /\ ~app.isDown
  /\ app.meshes[1].rotY # Zero
  /\ app.meshes[4].rotY = app.meshes[1].rotY

====
